---- MODULE Spec2Model ----
(***************************************************************************)
(* restGo: the task REST service.  The five request handlers of            *)
(* internal/handlers/tasks.go run over the document-store repository of    *)
(* internal/database/mongodb.go.  Each in-flight request is a goroutine    *)
(* p \in Procs; a handler is cut into steps at its repository calls, the   *)
(* only points where requests interleave on shared state.                  *)
(***************************************************************************)
EXTENDS Integers, Sequences, FiniteSets, TLC

(* ----------------------------- bounds ---------------------------------- *)
\* number of requests the clients send
MaxReq == 3
\* last value of the server clock (Unix seconds)
MaxClock == 1

(* ------------------------ program constants ---------------------------- *)
MaxTitleLen == 100
MaxDescLen == 500
StatusOK == 200
StatusCreated == 201
StatusNoContent == 204
StatusBadRequest == 400
StatusNotFound == 404
StatusInternalServerError == 500

\* One goroutine serves each request.  The full specification runs two at a
\* time, so that every pair of handlers races; the creation race runs them all.
AllProcs == 1..MaxReq
Procs == {1, 2}
\* uuid.New() is called at most once per request
UUIDs == 1..MaxReq

(* ------------------------------ strings -------------------------------- *)
\* A string is the character ch repeated len times; the empty string is Str("", 0).
Str(ch, n) == [ch |-> IF n = 0 THEN "" ELSE ch, len |-> n]
EmptyStr == Str("", 0)

(* ---------------------- identifiers on the wire ------------------------ *)
\* A path id is text: the canonical dashed form of a UUID, another form
\* uuid.Parse accepts (urn:uuid:...), or text that is no UUID at all.
IdText(form, u) == [form |-> form, val |-> u]
Malformed == IdText("malformed", 0)
WellFormedIds == {IdText("canonical", u) : u \in UUIDs} \cup {IdText("urn", 1)}
PathIds == WellFormedIds \cup {Malformed}

\* uuid.Parse: the UUID of a well-formed text, an error otherwise
uuidParse(idStr) ==
    IF idStr.form \in {"canonical", "urn"}
    THEN [err |-> FALSE, id |-> idStr.val]
    ELSE [err |-> TRUE, id |-> 0]

\* UUID.String: always the canonical form
uuidString(u) == IdText("canonical", u)

(* ------------------------------ records -------------------------------- *)
\* database.Task; NoTask is the nil *Task
NoTask == [ID |-> 0, Title |-> EmptyStr, Description |-> EmptyStr,
           Completed |-> FALSE, CreatedAt |-> 0, UpdatedAt |-> 0]

Task(id, title, description, completed, createdAt, updatedAt) ==
    [ID |-> id, Title |-> title, Description |-> description,
     Completed |-> completed, CreatedAt |-> createdAt, UpdatedAt |-> updatedAt]

\* timestamppb.New(time.Unix(sec, 0))
Timestamp(sec) == [seconds |-> sec, nanos |-> 0]

\* Task.ToProto: the wire message of a stored record
ToProto(t) ==
    [id |-> uuidString(t.ID), title |-> t.Title, description |-> t.Description,
     completed |-> t.Completed, createdAt |-> Timestamp(t.CreatedAt),
     updatedAt |-> Timestamp(t.UpdatedAt)]

(* --------------------------- protojson --------------------------------- *)
\* protojson.Marshal emits only populated fields: a string when it is not
\* empty, a bool when it is true, a message when it is set, a list when it
\* has an element.  A JSON object is the set of keys emitted with the message.
PopulatedTaskFields(m) ==
    {"id", "createdAt", "updatedAt"}
        \cup (IF m.title.len > 0 THEN {"title"} ELSE {})
        \cup (IF m.description.len > 0 THEN {"description"} ELSE {})
        \cup (IF m.completed THEN {"completed"} ELSE {})

MarshalTask(m) == [keys |-> PopulatedTaskFields(m), val |-> m]

\* GetTaskResponse{Task: m}
NoJSON == [keys |-> {}]
MarshalGetTaskResponse(m) ==
    [object |-> TRUE, keys |-> {"task"}, task |-> MarshalTask(m), tasks |-> <<>>]

\* ListTasksResponse{Tasks: ms}
MarshalListTasksResponse(ms) ==
    [object |-> TRUE,
     keys |-> IF Len(ms) > 0 THEN {"tasks"} ELSE {},
     task |-> NoJSON,
     tasks |-> [i \in 1..Len(ms) |-> MarshalTask(ms[i])]]

\* no body at all (an error carries its own, a 204 carries none)
NoBody == [object |-> FALSE, keys |-> {}, task |-> NoJSON, tasks |-> <<>>]

(* ------------------------- request bodies ------------------------------ *)
\* What a client can put in a body: bytes that cannot be read, bytes that are
\* no JSON, or a JSON object with title, description and, possibly, completed.
Body(kind, title, description, completed) ==
    [kind |-> kind, title |-> title, description |-> description, completed |-> completed]
\* the title/description pairs validation accepts, and those it rejects
ValidTexts == {<<Str("a", 1), EmptyStr>>, <<Str("b", MaxTitleLen), Str("d", MaxDescLen)>>}
InvalidTexts == {<<EmptyStr, EmptyStr>>, <<Str("a", MaxTitleLen + 1), EmptyStr>>,
                 <<Str("a", 1), Str("d", MaxDescLen + 1)>>,
                 <<EmptyStr, Str("d", MaxDescLen + 1)>>}
Bodies ==
    {Body("unreadable", EmptyStr, EmptyStr, "absent"), Body("garbage", EmptyStr, EmptyStr, "absent")}
        \cup {Body("json", td[1], td[2], c) : td \in ValidTexts, c \in {"absent", "true", "false"}}
        \cup {Body("json", td[1], td[2], "absent") : td \in InvalidTexts}

\* a request message that was not decoded
NoReq == [err |-> TRUE, Title |-> EmptyStr, Description |-> EmptyStr, Completed |-> "absent"]

\* protojson.Unmarshal into CreateTaskRequest{title, description}: text that is
\* no JSON and a key the message does not have are both errors.
UnmarshalCreateTaskRequest(body) ==
    IF body.kind # "json" \/ body.completed # "absent"
    THEN NoReq
    ELSE [err |-> FALSE, Title |-> body.title, Description |-> body.description,
          Completed |-> "absent"]

\* protojson.Unmarshal into UpdateTaskRequest{title, description, optional completed}
UnmarshalUpdateTaskRequest(body) ==
    IF body.kind # "json"
    THEN NoReq
    ELSE [err |-> FALSE, Title |-> body.title, Description |-> body.description,
          Completed |-> body.completed]

(* ---------------------------- validation ------------------------------- *)
\* The text of a validation error: "invalid <Message>.<Field>: <reason>"
NoError == [invalid |-> FALSE, path |-> <<>>, reason |-> ""]
ValidationErrorText(msgName, field, reason) ==
    [invalid |-> TRUE, path |-> <<msgName, field>>, reason |-> reason]

\* req.Validate(): the first violated rule, title before description
Validate(msgName, req) ==
    IF req.Title.len < 1 \/ req.Title.len > MaxTitleLen
    THEN ValidationErrorText(msgName, "Title", "value length must be between 1 and 100 runes, inclusive")
    ELSE IF req.Description.len > MaxDescLen
    THEN ValidationErrorText(msgName, "Description", "value length must be at most 500 runes")
    ELSE NoError

(* ------------------------------ errors --------------------------------- *)
APIError(type, message, details) == [type |-> type, message |-> message, details |-> details]
NewBadRequestError(message) == APIError("BAD_REQUEST", message, <<>>)
NewNotFoundError(message) == APIError("NOT_FOUND", message, <<>>)
NewInternalError(message) == APIError("INTERNAL_ERROR", message, <<>>)
NewValidationError(message, details) == APIError("VALIDATION_ERROR", message, details)

\* TaskHandler.convertValidationError: one detail per "invalid <path>: <reason>"
\* line, naming the last segment of the path; the raw text when no line parses.
convertValidationError(err) ==
    LET details == IF err.invalid
                   THEN <<[Field |-> err.path[Len(err.path)], Message |-> err.reason]>>
                   ELSE <<>>
    IN  IF Len(details) = 0
        THEN NewValidationError("Validation failed", <<[Field |-> "error", Message |-> err.reason]>>)
        ELSE NewValidationError("Validation failed", details)

\* A response: who wrote it, the status line, the error (type "" on success)
\* and the body of a success.
Response(by, status, apiErr, body) ==
    [by |-> by, status |-> status, type |-> apiErr.type, message |-> apiErr.message,
     details |-> apiErr.details, body |-> body]
NoAPIError == APIError("", "", <<>>)
\* no response written
NoResp == Response("", 0, NoAPIError, NoBody)
\* errors.RespondWithError
RespondWithError(by, status, apiErr) == Response(by, status, apiErr, NoBody)
\* w.WriteHeader(status); w.Write(data)
RespondOK(by, status, body) == Response(by, status, NoAPIError, body)

(* ------------------------------ state ---------------------------------- *)
VARIABLES
    store,     \* the tasks collection: UUID -> stored record, NoTask when absent
    clock,     \* the server clock, Unix seconds
    uuidGen,   \* how many identifiers uuid.New() has handed out
    pc,        \* per request goroutine: "idle", "create_repo" or "update_repo"
    task,      \* per goroutine: the handler's local taskDb / task
    served,    \* how many requests have reached a handler
    out,       \* the response the latest step wrote, NoResp when it wrote none
    request,   \* per goroutine: the handler's local req, the decoded request
    call       \* per goroutine: its repository call and the context it runs under

vars == <<store, clock, uuidGen, pc, task, served, out, request, call>>

\* the records of the collection
Stored == {u \in UUIDs : store[u] # NoTask}

(* ---------------------- MongoTaskRepository ---------------------------- *)
\* Every call may fail (driver error, deadline); a failed call changes nothing.

\* a write that replaces the document of an _id already there
RepoCreate_Upserts(coll, t, fail) ==
    IF fail
    THEN [err |-> TRUE, coll |-> coll]
    ELSE [err |-> FALSE, coll |-> [coll EXCEPT ![t.ID] = t]]

\* InsertOne that leaves the description out of the document
RepoCreate_DropsDescription(coll, t, fail) ==
    IF fail \/ coll[t.ID] # NoTask
    THEN [err |-> TRUE, coll |-> coll]
    ELSE [err |-> FALSE, coll |-> [coll EXCEPT ![t.ID] = [t EXCEPT !.Description = EmptyStr]]]

\* InsertOne: fails on a driver error and on a duplicate _id
RepoCreate(coll, t, fail) ==
    IF fail \/ coll[t.ID] # NoTask
    THEN [err |-> TRUE, coll |-> coll]
    ELSE [err |-> FALSE, coll |-> [coll EXCEPT ![t.ID] = t]]

\* FindOne that hands ErrNoDocuments on as an error
RepoFindByID_NoDocsIsError(coll, id, fail) ==
    IF fail \/ coll[id] = NoTask THEN [err |-> TRUE, task |-> NoTask]
    ELSE [err |-> FALSE, task |-> coll[id]]

\* FindOne: ErrNoDocuments is (nil, nil)
RepoFindByID(coll, id, fail) ==
    IF fail THEN [err |-> TRUE, task |-> NoTask]
    ELSE [err |-> FALSE, task |-> coll[id]]

\* Find + cursor.All: every record, in an order the store chooses
RepoFindAll(coll, order, fail) ==
    IF fail THEN [err |-> TRUE, tasks |-> <<>>]
    ELSE [err |-> FALSE, tasks |-> [i \in 1..Len(order) |-> coll[order[i]]]]

\* UpdateMany with a filter that matches every document
RepoUpdate_UpdatesMany(coll, id, t, fail) ==
    IF fail THEN [err |-> TRUE, coll |-> coll]
    ELSE [err |-> FALSE,
          coll |-> [u \in DOMAIN coll |->
                      IF coll[u] = NoTask THEN NoTask
                      ELSE [coll[u] EXCEPT !.Title = t.Title,
                                           !.Description = t.Description,
                                           !.Completed = t.Completed,
                                           !.UpdatedAt = t.UpdatedAt]]]

\* UpdateOne with upsert: a filter that matches nothing inserts the document
RepoUpdate_Upserts(coll, id, t, fail) ==
    IF fail THEN [err |-> TRUE, coll |-> coll]
    ELSE IF coll[id] = NoTask THEN [err |-> FALSE, coll |-> [coll EXCEPT ![id] = t]]
    ELSE [err |-> FALSE,
          coll |-> [coll EXCEPT ![id] = [@ EXCEPT !.Title = t.Title,
                                                  !.Description = t.Description,
                                                  !.Completed = t.Completed,
                                                  !.UpdatedAt = t.UpdatedAt]]]

\* UpdateOne with $set of title, description, completed, updatedAt; no upsert:
\* a filter that matches nothing changes nothing and is no error
RepoUpdate(coll, id, t, fail) ==
    IF fail THEN [err |-> TRUE, coll |-> coll]
    ELSE IF coll[id] = NoTask THEN [err |-> FALSE, coll |-> coll]
    ELSE [err |-> FALSE,
          coll |-> [coll EXCEPT ![id] = [@ EXCEPT !.Title = t.Title,
                                                  !.Description = t.Description,
                                                  !.Completed = t.Completed,
                                                  !.UpdatedAt = t.UpdatedAt]]]

\* DeleteOne that takes a filter matching nothing for an error
RepoDelete_NoMatchIsError(coll, id, fail) ==
    IF fail \/ coll[id] = NoTask THEN [err |-> TRUE, coll |-> coll]
    ELSE [err |-> FALSE, coll |-> [coll EXCEPT ![id] = NoTask]]

\* DeleteOne whose filter never matches
RepoDelete_NoMatch(coll, id, fail) ==
    IF fail THEN [err |-> TRUE, coll |-> coll]
    ELSE [err |-> FALSE, coll |-> coll]

\* DeleteOne: a filter that matches nothing is no error
RepoDelete(coll, id, fail) ==
    IF fail THEN [err |-> TRUE, coll |-> coll]
    ELSE [err |-> FALSE, coll |-> [coll EXCEPT ![id] = NoTask]]

\* the orders in which FindAll may return the records in S
Orders(S) == {o \in [1..Cardinality(S) -> S] : \A i, j \in 1..Cardinality(S) : o[i] = o[j] => i = j}

\* helpers.Map(taskList, ToProto)
MapToProto(ts) == [i \in 1..Len(ts) |-> ToProto(ts[i])]

(* ------------------------------ handlers ------------------------------- *)
\* A handler that answers and returns: the response is written, the goroutine
\* is free again and its locals are gone.
Answer(p, resp) ==
    /\ out' = resp
    /\ pc' = [pc EXCEPT ![p] = "idle"]
    /\ task' = [task EXCEPT ![p] = NoTask]

\* TaskHandler.GetAll
GetAll(p, order, fail) ==
    /\ out = NoResp
    /\ pc[p] = "idle"
    /\ order \in Orders(Stored)
    /\ LET found == RepoFindAll(store, order, fail)
       IN  IF found.err
           THEN Answer(p, RespondWithError("GetAll", StatusInternalServerError,
                                           NewInternalError("Failed to retrieve tasks")))
           ELSE Answer(p, RespondOK("GetAll", StatusOK,
                                    MarshalListTasksResponse(MapToProto(found.tasks))))
    /\ UNCHANGED <<store, clock, uuidGen>>
    /\ served < MaxReq /\ served' = served + 1

\* Create with the validation step left out
CreateDecode_NoValidate(body) ==
    IF body.kind = "unreadable"
    THEN RespondWithError("Create", StatusBadRequest, NewBadRequestError("Failed to read request body"))
    ELSE IF UnmarshalCreateTaskRequest(body).err
    THEN RespondWithError("Create", StatusBadRequest, NewBadRequestError("Invalid JSON format"))
    ELSE NoResp

\* TaskHandler.Create up to its repository call: read, decode, validate, then
\* take the time and a new identifier and build the record.
CreateDecode(body) ==
    IF body.kind = "unreadable"
    THEN RespondWithError("Create", StatusBadRequest, NewBadRequestError("Failed to read request body"))
    ELSE LET req == UnmarshalCreateTaskRequest(body)
         IN  IF req.err
             THEN RespondWithError("Create", StatusBadRequest, NewBadRequestError("Invalid JSON format"))
             ELSE LET verr == Validate("CreateTaskRequest", req)
                  IN  IF verr # NoError
                      THEN RespondWithError("Create", StatusBadRequest, convertValidationError(verr))
                      ELSE NoResp

\* Create forgetting to set UpdatedAt
NewTask_NoUpdatedAt(req, id, now) == Task(id, req.Title, req.Description, FALSE, now, 0)

\* Create that gives every record the same identifier
NewTask_FixedID(req, id, now) == Task(1, req.Title, req.Description, FALSE, now, now)

\* the record Create builds from an accepted request
NewTask(req, id, now) == Task(id, req.Title, req.Description, FALSE, now, now)

\* id is what uuid.New() returns to this request
CreateBeginWith(p, body, id) ==
    /\ out = NoResp
    /\ pc[p] = "idle"
    /\ LET rejected == CreateDecode(body)
       IN  IF rejected # NoResp
           THEN Answer(p, rejected) /\ UNCHANGED uuidGen
           ELSE /\ uuidGen' = uuidGen + 1
                /\ task' = [task EXCEPT ![p] =
                              NewTask(UnmarshalCreateTaskRequest(body), id, clock)]
                /\ pc' = [pc EXCEPT ![p] = "create_repo"]
                /\ out' = NoResp
    /\ UNCHANGED <<store, clock>>
    /\ served < MaxReq /\ served' = served + 1

\* uuid.New() returns an identifier never handed out before
CreateBegin(p, body) == CreateBeginWith(p, body, uuidGen + 1)

\* TaskHandler.Create from its repository call on
CreateRepo(p, fail) ==
    /\ out = NoResp
    /\ pc[p] = "create_repo"
    /\ LET r == RepoCreate(store, task[p], fail)
       IN  /\ store' = r.coll
           /\ IF r.err
              THEN Answer(p, RespondWithError("Create", StatusInternalServerError,
                                              NewInternalError("Failed to create task")))
              ELSE Answer(p, RespondOK("Create", StatusCreated,
                                       MarshalGetTaskResponse(ToProto(task[p]))))
    /\ UNCHANGED <<clock, uuidGen>>
    /\ UNCHANGED served

\* TaskHandler.GetByID
GetByID(p, idStr, fail) ==
    /\ out = NoResp
    /\ pc[p] = "idle"
    /\ LET id == uuidParse(idStr)
       IN  IF id.err
           THEN Answer(p, RespondWithError("GetByID", StatusBadRequest,
                                           NewBadRequestError("Invalid task ID format")))
           ELSE LET found == RepoFindByID(store, id.id, fail)
                IN  IF found.err
                    THEN Answer(p, RespondWithError("GetByID", StatusInternalServerError,
                                                    NewInternalError("Failed to retrieve task")))
                    ELSE IF found.task = NoTask
                    THEN Answer(p, RespondWithError("GetByID", StatusNotFound,
                                                    NewNotFoundError("Task not found")))
                    ELSE Answer(p, RespondOK("GetByID", StatusOK,
                                             MarshalGetTaskResponse(ToProto(found.task))))
    /\ UNCHANGED <<store, clock, uuidGen>>
    /\ served < MaxReq /\ served' = served + 1

\* Update with the validation step left out
UpdateDecode_NoValidate(idStr, body) ==
    IF uuidParse(idStr).err
    THEN RespondWithError("Update", StatusBadRequest, NewBadRequestError("Invalid task ID format"))
    ELSE IF body.kind = "unreadable"
    THEN RespondWithError("Update", StatusBadRequest, NewBadRequestError("Failed to read request body"))
    ELSE IF UnmarshalUpdateTaskRequest(body).err
    THEN RespondWithError("Update", StatusBadRequest, NewBadRequestError("Invalid JSON format"))
    ELSE NoResp

\* Update that reads, decodes and validates the body before it parses the id
UpdateDecode_BodyFirst(idStr, body) ==
    IF body.kind = "unreadable"
    THEN RespondWithError("Update", StatusBadRequest, NewBadRequestError("Failed to read request body"))
    ELSE LET req == UnmarshalUpdateTaskRequest(body)
         IN  IF req.err
             THEN RespondWithError("Update", StatusBadRequest, NewBadRequestError("Invalid JSON format"))
             ELSE LET verr == Validate("UpdateTaskRequest", req)
                  IN  IF verr # NoError
                      THEN RespondWithError("Update", StatusBadRequest, convertValidationError(verr))
                      ELSE IF uuidParse(idStr).err
                      THEN RespondWithError("Update", StatusBadRequest,
                                            NewBadRequestError("Invalid task ID format"))
                      ELSE NoResp

\* Update that takes a path id it cannot parse for the id of no record
UpdateDecode_MalformedIsNotFound(idStr, body) ==
    IF uuidParse(idStr).err
    THEN RespondWithError("Update", StatusNotFound, NewNotFoundError("Task not found"))
    ELSE IF body.kind = "unreadable"
    THEN RespondWithError("Update", StatusBadRequest, NewBadRequestError("Failed to read request body"))
    ELSE LET req == UnmarshalUpdateTaskRequest(body)
         IN  IF req.err
             THEN RespondWithError("Update", StatusBadRequest, NewBadRequestError("Invalid JSON format"))
             ELSE LET verr == Validate("UpdateTaskRequest", req)
                  IN  IF verr # NoError
                      THEN RespondWithError("Update", StatusBadRequest, convertValidationError(verr))
                      ELSE NoResp

\* TaskHandler.Update before it reaches the repository: path id, body, validation
UpdateDecode(idStr, body) ==
    IF uuidParse(idStr).err
    THEN RespondWithError("Update", StatusBadRequest, NewBadRequestError("Invalid task ID format"))
    ELSE IF body.kind = "unreadable"
    THEN RespondWithError("Update", StatusBadRequest, NewBadRequestError("Failed to read request body"))
    ELSE LET req == UnmarshalUpdateTaskRequest(body)
         IN  IF req.err
             THEN RespondWithError("Update", StatusBadRequest, NewBadRequestError("Invalid JSON format"))
             ELSE LET verr == Validate("UpdateTaskRequest", req)
                  IN  IF verr # NoError
                      THEN RespondWithError("Update", StatusBadRequest, convertValidationError(verr))
                      ELSE NoResp

\* Update that sets updatedAt to the zero time
ApplyUpdate_ZeroUpdatedAt(found, req, now) ==
    [found EXCEPT !.Title = req.Title,
                  !.Description = req.Description,
                  !.Completed = IF req.Completed = "absent" THEN @ ELSE req.Completed = "true",
                  !.UpdatedAt = 0]

\* Update that takes a request without completed for completed = false
ApplyUpdate_OmittedIsFalse(found, req, now) ==
    [found EXCEPT !.Title = req.Title,
                  !.Description = req.Description,
                  !.Completed = (req.Completed = "true"),
                  !.UpdatedAt = now]

\* the record Update writes: the one found, with the request's title and
\* description, the request's completed when it has one, and the time
ApplyUpdate(found, req, now) ==
    [found EXCEPT !.Title = req.Title,
                  !.Description = req.Description,
                  !.Completed = IF req.Completed = "absent" THEN @ ELSE req.Completed = "true",
                  !.UpdatedAt = now]

\* TaskHandler.Update up to its second repository call: decode, validate,
\* FindByID, then change the record found
UpdateBegin(p, idStr, body, fail) ==
    /\ out = NoResp
    /\ pc[p] = "idle"
    /\ LET rejected == UpdateDecode(idStr, body)
       IN  IF rejected # NoResp
           THEN Answer(p, rejected)
           ELSE LET found == RepoFindByID(store, uuidParse(idStr).id, fail)
                IN  IF found.err
                    THEN Answer(p, RespondWithError("Update", StatusInternalServerError,
                                                    NewInternalError("Failed to retrieve task")))
                    ELSE IF found.task = NoTask
                    THEN Answer(p, RespondWithError("Update", StatusNotFound,
                                                    NewNotFoundError("Task not found")))
                    ELSE /\ task' = [task EXCEPT ![p] =
                                       ApplyUpdate(found.task, UnmarshalUpdateTaskRequest(body), clock)]
                         /\ pc' = [pc EXCEPT ![p] = "update_repo"]
                         /\ out' = NoResp
    /\ UNCHANGED <<store, clock, uuidGen>>
    /\ served < MaxReq /\ served' = served + 1

\* Update that goes on to its answer whatever the repository update returned
UpdateRepo_IgnoresError(p, fail) ==
    /\ out = NoResp
    /\ pc[p] = "update_repo"
    /\ store' = RepoUpdate(store, task[p].ID, task[p], fail).coll
    /\ Answer(p, RespondOK("Update", StatusOK, MarshalGetTaskResponse(ToProto(task[p]))))
    /\ UNCHANGED <<clock, uuidGen>>
    /\ UNCHANGED served

\* TaskHandler.Update from its second repository call on
UpdateRepo(p, fail) ==
    /\ out = NoResp
    /\ pc[p] = "update_repo"
    /\ LET r == RepoUpdate(store, task[p].ID, task[p], fail)
       IN  /\ store' = r.coll
           /\ IF r.err
              THEN Answer(p, RespondWithError("Update", StatusInternalServerError,
                                              NewInternalError("Failed to update task")))
              ELSE Answer(p, RespondOK("Update", StatusOK,
                                       MarshalGetTaskResponse(ToProto(task[p]))))
    /\ UNCHANGED <<clock, uuidGen>>
    /\ UNCHANGED served

\* TaskHandler.Delete
Delete(p, idStr, fail) ==
    /\ out = NoResp
    /\ pc[p] = "idle"
    /\ LET id == uuidParse(idStr)
       IN  IF id.err
           THEN /\ Answer(p, RespondWithError("Delete", StatusBadRequest,
                                              NewBadRequestError("Invalid task ID format")))
                /\ UNCHANGED store
           ELSE LET r == RepoDelete(store, id.id, fail)
                IN  /\ store' = r.coll
                    /\ IF r.err
                       THEN Answer(p, RespondWithError("Delete", StatusInternalServerError,
                                                       NewInternalError("Failed to delete task")))
                       ELSE Answer(p, RespondOK("Delete", StatusNoContent, NoBody))
    /\ UNCHANGED <<clock, uuidGen>>
    /\ served < MaxReq /\ served' = served + 1

\* a second passes on the server clock
Tick ==
    /\ out = NoResp
    /\ clock < MaxClock
    /\ clock' = clock + 1
    /\ out' = NoResp
    /\ UNCHANGED <<store, uuidGen, pc, task>>
    /\ UNCHANGED served

\* The response just written leaves for the client: out holds a response for
\* the one state that follows the step that wrote it.
Deliver ==
    /\ out # NoResp
    /\ out' = NoResp
    /\ UNCHANGED <<store, clock, uuidGen, pc, task>>
    /\ UNCHANGED served

(* ------------------- repository calls and their context ---------------- *)
\* A context's deadline: none, or the time left until it.  r.Context() of a
\* request has none of its own (main.go sets no server timeout).
Background == [set |-> FALSE, left |-> 0]
Deadline(n) == [set |-> TRUE, left |-> n]

\* context.WithTimeout(parent, d): the deadline d from now, unless the
\* parent's is earlier
WithTimeout(parent, d) ==
    IF parent.set /\ parent.left <= d THEN parent ELSE Deadline(d)

\* the timeout of every repository call: 5*time.Second
RepoTimeout == 5

\* a repository that runs its call under the caller's context as it is
RepoContext_CallerOnly(parent) == parent

\* ctx, cancel := context.WithTimeout(ctx, 5*time.Second), the first line of
\* Create, FindByID, FindAll, Update and Delete
RepoContext(parent) == WithTimeout(parent, RepoTimeout)

\* A goroutine's repository call: the handler step that makes it, the request
\* the step works on, the caller's context and the context the call runs
\* under; state is "none", "pending", or how the last call ended.
NoCall ==
    [state |-> "none", op |-> "", idStr |-> Malformed,
     body |-> Body("unreadable", EmptyStr, EmptyStr, "absent"),
     parent |-> Background, ctx |-> Background]
Pending(p) == call[p].state = "pending"
Ended(how) == [NoCall EXCEPT !.state = how]

\* the handler step of goroutine p that makes the repository call c, which
\* fails or not
Step(p, c, order, fail) ==
    CASE c.op = "GetAll"      -> GetAll(p, order, fail)
      [] c.op = "CreateRepo"  -> CreateRepo(p, fail)
      [] c.op = "GetByID"     -> GetByID(p, c.idStr, fail)
      [] c.op = "UpdateBegin" -> UpdateBegin(p, c.idStr, c.body, fail)
      [] c.op = "UpdateRepo"  -> UpdateRepo(p, fail)
      [] c.op = "Delete"      -> Delete(p, c.idStr, fail)

(* --------------------------- specification ----------------------------- *)
Init ==
    /\ store = [u \in UUIDs |-> NoTask]
    /\ clock = 0
    /\ uuidGen = 0
    /\ pc = [p \in AllProcs |-> "idle"]
    /\ task = [p \in AllProcs |-> NoTask]
    /\ out = NoResp
    /\ served = 0
    /\ request = [p \in AllProcs |-> NoReq]
    /\ call = [p \in AllProcs |-> NoCall]

\* A new request is served by the first free goroutine of P (goroutines have
\* no identity: which free one serves it makes no difference).
FirstFree(P) ==
    LET free == {p \in P : pc[p] = "idle"}
    IN  {p \in free : \A q \in free : p <= q}

Next ==
    \/ \E order \in Orders(Stored) : \E p \in FirstFree(Procs), fail \in BOOLEAN :
           GetAll(p, order, fail)
           /\ UNCHANGED <<request, call>>
    \/ \E p \in FirstFree(Procs), body \in Bodies : CreateBegin(p, body)
           /\ UNCHANGED <<request, call>>
    \/ \E p \in Procs, fail \in BOOLEAN : CreateRepo(p, fail)
           /\ UNCHANGED <<request, call>>
    \/ \E p \in FirstFree(Procs), idStr \in PathIds, fail \in BOOLEAN : GetByID(p, idStr, fail)
           /\ UNCHANGED <<request, call>>
    \/ \E p \in FirstFree(Procs), idStr \in PathIds, body \in Bodies, fail \in BOOLEAN :
           UpdateBegin(p, idStr, body, fail)
           /\ UNCHANGED <<request, call>>
    \/ \E p \in Procs, fail \in BOOLEAN : UpdateRepo(p, fail)
           /\ UNCHANGED <<request, call>>
    \/ \E p \in FirstFree(Procs), idStr \in PathIds, fail \in BOOLEAN : Delete(p, idStr, fail)
           /\ UNCHANGED <<request, call>>
    \/ Tick
           /\ UNCHANGED <<request, call>>
    \/ Deliver
           /\ UNCHANGED <<request, call>>

Spec == Init /\ [][Next]_vars

\* The creation race: every request is a Create with a body that decodes and
\* validates, each on a goroutine of its own, against a repository that
\* answers; nothing else is sent.
CreateBodies ==
    {body \in Bodies : /\ ~UnmarshalCreateTaskRequest(body).err
                       /\ Validate("CreateTaskRequest", UnmarshalCreateTaskRequest(body)) = NoError}

CreateNext ==
    \/ \E p \in FirstFree(AllProcs), body \in CreateBodies : CreateBegin(p, body)
           /\ UNCHANGED <<request, call>>
    \/ \E p \in AllProcs : CreateRepo(p, FALSE)
           /\ UNCHANGED <<request, call>>
    \/ Tick
           /\ UNCHANGED <<request, call>>
    \/ Deliver
           /\ UNCHANGED <<request, call>>

CreateSpec == Init /\ [][CreateNext]_vars

\* One request at a time: the next is sent when the last was answered.
SerialNext ==
    \/ \E order \in Orders(Stored) : \E p \in FirstFree({1}), fail \in BOOLEAN :
           GetAll(p, order, fail)
           /\ UNCHANGED <<request, call>>
    \/ \E p \in FirstFree({1}), body \in Bodies : CreateBegin(p, body)
           /\ UNCHANGED <<request, call>>
    \/ \E fail \in BOOLEAN : CreateRepo(1, fail)
           /\ UNCHANGED <<request, call>>
    \/ \E p \in FirstFree({1}), idStr \in PathIds, fail \in BOOLEAN : GetByID(p, idStr, fail)
           /\ UNCHANGED <<request, call>>
    \/ \E p \in FirstFree({1}), idStr \in PathIds, body \in Bodies, fail \in BOOLEAN :
           UpdateBegin(p, idStr, body, fail)
           /\ UNCHANGED <<request, call>>
    \/ \E fail \in BOOLEAN : UpdateRepo(1, fail)
           /\ UNCHANGED <<request, call>>
    \/ \E p \in FirstFree({1}), idStr \in PathIds, fail \in BOOLEAN : Delete(p, idStr, fail)
           /\ UNCHANGED <<request, call>>
    \/ Tick
           /\ UNCHANGED <<request, call>>
    \/ Deliver
           /\ UNCHANGED <<request, call>>

SerialSpec == Init /\ [][SerialNext]_vars

\* Identifiers that collide: uuid.New() draws at random, so it may return an
\* identifier handed out before.  Requests with bodies that decode and
\* validate, against a repository that answers, within one second.
CollideNext ==
    \/ \E p \in FirstFree(Procs), body \in CreateBodies, id \in UUIDs :
           CreateBeginWith(p, body, id)
           /\ UNCHANGED <<request, call>>
    \/ \E p \in Procs : CreateRepo(p, FALSE)
           /\ UNCHANGED <<request, call>>
    \/ \E p \in FirstFree(Procs), idStr \in WellFormedIds, body \in CreateBodies :
           UpdateBegin(p, idStr, body, FALSE)
           /\ UNCHANGED <<request, call>>
    \/ \E p \in Procs : UpdateRepo(p, FALSE)
           /\ UNCHANGED <<request, call>>
    \/ \E p \in FirstFree(Procs), idStr \in WellFormedIds : Delete(p, idStr, FALSE)
           /\ UNCHANGED <<request, call>>
    \/ Deliver
           /\ UNCHANGED <<request, call>>

CollideSpec == Init /\ [][CollideNext]_vars

\* The update race: Creates and Updates with bodies that decode and validate,
\* against a repository that answers.  Each goroutine keeps the request its
\* Update decoded for as long as the Update is in progress.
UpdateBodies ==
    {body \in Bodies : /\ ~UnmarshalUpdateTaskRequest(body).err
                       /\ Validate("UpdateTaskRequest", UnmarshalUpdateTaskRequest(body)) = NoError}

RaceNext ==
    \/ \E p \in FirstFree(Procs), body \in CreateBodies : CreateBegin(p, body)
           /\ UNCHANGED <<request, call>>
    \/ \E p \in Procs : CreateRepo(p, FALSE)
           /\ UNCHANGED <<request, call>>
    \/ \E p \in FirstFree(Procs), idStr \in WellFormedIds, body \in UpdateBodies :
           /\ UpdateBegin(p, idStr, body, FALSE)
           /\ request' = [request EXCEPT ![p] =
                             IF pc'[p] = "update_repo"
                             THEN UnmarshalUpdateTaskRequest(body) ELSE NoReq]
           /\ UNCHANGED call
    \/ \E p \in Procs :
           /\ UpdateRepo(p, FALSE)
           /\ request' = [request EXCEPT ![p] = NoReq]
           /\ UNCHANGED call
    \/ Tick
           /\ UNCHANGED <<request, call>>
    \/ Deliver
           /\ UNCHANGED <<request, call>>

RaceSpec == Init /\ [][RaceNext]_vars

\* Repository calls in time.  One request at a time, with an id that parses
\* and a body that decodes and validates, so that every handler reaches its
\* repository call.  The call is made under RepoContext of the caller's
\* context and stays pending until the store answers, the call's deadline
\* passes or the caller cancels; the handler step then runs with the call's
\* outcome.  Deadlines run on the monotonic clock, which the wall clock
\* (clock) does not follow.
Contexts == {Background, Deadline(1), Deadline(RepoTimeout + 1)}
EntryOps == {"GetAll", "GetByID", "UpdateBegin", "Delete"}

\* the call of handler step op begins
StartCall(p, op, idStr, body, parent) ==
    call' = [call EXCEPT ![p] =
                [state |-> "pending", op |-> op, idStr |-> idStr, body |-> body,
                 parent |-> parent, ctx |-> RepoContext(parent)]]

\* a request arrives for a handler whose first step makes a repository call
Receive(p, op, idStr, body, parent) ==
    /\ out = NoResp /\ pc[p] = "idle" /\ ~Pending(p)
    /\ served < MaxReq
    /\ op \in EntryOps
    /\ StartCall(p, op, idStr, body, parent)
    /\ UNCHANGED <<store, clock, uuidGen, pc, task, served, out, request>>

\* a Create arrives: it decodes, validates and builds its task, then calls
ReceiveCreate(p, body, parent) ==
    /\ ~Pending(p)
    /\ CreateBegin(p, body)
    /\ IF pc'[p] = "create_repo"
       THEN StartCall(p, "CreateRepo", Malformed, body, parent)
       ELSE UNCHANGED call
    /\ UNCHANGED request

\* the handler step runs on the outcome of its call; an Update whose find
\* gave a record goes on to its second call, under the same caller's context
Finish(p, order, fail, how) ==
    /\ Pending(p)
    /\ Step(p, call[p], order, fail)
    /\ IF pc'[p] = "update_repo" /\ call[p].op = "UpdateBegin"
       THEN StartCall(p, "UpdateRepo", call[p].idStr, call[p].body, call[p].parent)
       ELSE call' = [call EXCEPT ![p] = Ended(how)]
    /\ UNCHANGED request

\* the store answers, with a result or an error of its own, before the deadline
Return(p, order, fail) ==
    /\ ~(call[p].ctx.set /\ call[p].ctx.left = 0)
    /\ Finish(p, order, fail, "answered")

\* the call's deadline passes: the driver returns context.DeadlineExceeded
Expire(p) ==
    /\ call[p].ctx.set /\ call[p].ctx.left = 0
    /\ \E order \in Orders(Stored) : Finish(p, order, TRUE, "expired")

\* the caller's context is cancelled: the driver returns context.Canceled
Cancel(p) ==
    \E order \in Orders(Stored) : Finish(p, order, TRUE, "cancelled")

\* a unit of time passes for every pending call
Pass(c) == IF c.set THEN Deadline(c.left - 1) ELSE c
Elapse ==
    /\ \E p \in AllProcs : Pending(p) /\ call[p].ctx.set
    /\ \A p \in AllProcs : Pending(p) => ~(call[p].ctx.set /\ call[p].ctx.left = 0)
    /\ call' = [p \in AllProcs |->
                  IF Pending(p)
                  THEN [call[p] EXCEPT !.ctx = Pass(@), !.parent = Pass(@)]
                  ELSE call[p]]
    /\ UNCHANGED <<store, clock, uuidGen, pc, task, served, out, request>>

TimedDeliver == Deliver /\ UNCHANGED <<request, call>>

TimedNext ==
    \/ \E p \in FirstFree({1}), op \in EntryOps, idStr \in WellFormedIds,
          body \in CreateBodies, parent \in Contexts :
           Receive(p, op, idStr, body, parent)
    \/ \E p \in FirstFree({1}), body \in CreateBodies, parent \in Contexts :
           ReceiveCreate(p, body, parent)
    \/ \E order \in Orders(Stored), fail \in BOOLEAN : Return(1, order, fail)
    \/ Expire(1)
    \/ Cancel(1)
    \/ Elapse
    \/ TimedDeliver

\* Time passes, a deadline that has come is noticed, and a response written
\* is sent; nothing makes the store answer.
TimedSpec ==
    /\ Init /\ [][TimedNext]_vars
    /\ WF_vars(Elapse) /\ WF_vars(Expire(1)) /\ WF_vars(TimedDeliver)

(* ------------------------------ claims --------------------------------- *)
\* a body that is a JSON object of the request's own keys
DecodesAsCreate(body) == body.kind = "json" /\ body.completed = "absent"
DecodesAsUpdate(body) == body.kind = "json"
\* the field constraints: title of 1..100 characters, description of at most 500
FieldsValid(body) ==
    /\ body.title.len >= 1 /\ body.title.len <= MaxTitleLen
    /\ body.description.len <= MaxDescLen
\* a response is an error of the given status and kind
IsError(resp, status, type) == resp.status = status /\ resp.type = type /\ resp.body = NoBody

\* what every step of handler h that takes a request shows: a request was
\* taken, and h answered it or went on to its repository call
Enters(p, h, next) ==
    /\ pc[p] = "idle" /\ served' = served + 1
    /\ out'.by = h \/ pc'[p] = next

\* C1: a Create whose body decodes and passes validation builds a record from
\* the server's own identifier and clock (completed false, createdAt =
\* updatedAt), whatever the body says; when the repository create succeeds
\* the answer is 201 and exactly that one record is new in the store, under
\* an id no stored record has.  A body that names completed is refused.
C1_CreateStoresFreshTask ==
    [][\A p \in Procs :
        /\ Enters(p, "Create", "create_repo") => \A body \in Bodies :
             CreateBegin(p, body) =>
                IF DecodesAsCreate(body) /\ FieldsValid(body)
                THEN /\ out' = NoResp /\ pc'[p] = "create_repo"
                     /\ task'[p] = Task(uuidGen + 1, body.title, body.description,
                                        FALSE, clock, clock)
                     /\ task'[p].ID \notin Stored
                     /\ \A q \in Procs \ {p} : task[q].ID # task'[p].ID
                ELSE out'.status = StatusBadRequest /\ pc'[p] = "idle"
        /\ CreateRepo(p, FALSE) =>
             /\ out'.status = StatusCreated /\ out'.type = ""
             /\ \E u \in UUIDs \ Stored :
                  /\ store' = [store EXCEPT ![u] = task[p]]
                  /\ store'[u].ID = u
                  /\ store'[u].Completed = FALSE
                  /\ store'[u].CreatedAt = store'[u].UpdatedAt
                  /\ out'.body = MarshalGetTaskResponse(ToProto(store'[u]))
      ]_vars

\* C1 witness: a Create answered 201 with another record already stored, after
\* the clock has moved
C1_Witness ==
    /\ out.by = "Create" /\ out.status = StatusCreated
    /\ Cardinality(Stored) = 2
    /\ \E u \in Stored : store[u].CreatedAt > 0

\* C2: a Create whose title is empty or longer than 100 characters, or whose
\* description is longer than 500 characters, is answered 400 VALIDATION_ERROR.
C2_CreateValidation ==
    [][\A p \in Procs : Enters(p, "Create", "create_repo") => \A body \in Bodies :
        (DecodesAsCreate(body) /\ ~FieldsValid(body) /\ CreateBegin(p, body)) =>
            /\ IsError(out', StatusBadRequest, "VALIDATION_ERROR")
            /\ pc'[p] = "idle"
      ]_vars

\* C2 witness: a Create refused for its fields
C2_Witness ==
    /\ out.by = "Create" /\ IsError(out, StatusBadRequest, "VALIDATION_ERROR")
    /\ out.details[1].Field = "Description"

\* the decodable bodies whose fields break a constraint
BadFieldBodies == {body \in Bodies : body.kind = "json" /\ ~FieldsValid(body)}

\* C3: a Create or an Update refused by validation changes no stored record,
\* and is refused the same way whether the repository would answer or fail
\* and whether or not the id is stored: it never gets to the repository.
C3_ValidationTouchesNoStorage ==
    [][/\ out'.type = "VALIDATION_ERROR" => store' = store
       /\ \A p \in FirstFree(Procs) :
            LET refused == /\ out'.type = "VALIDATION_ERROR" /\ out'.status = StatusBadRequest
                           /\ pc'[p] = "idle" /\ store' = store
            IN  /\ Enters(p, "Create", "create_repo") =>
                      \/ refused
                      \/ \A body \in BadFieldBodies :
                            ~(DecodesAsCreate(body) /\ CreateBegin(p, body))
                /\ Enters(p, "Update", "update_repo") =>
                      \/ refused
                      \/ \A body \in BadFieldBodies, idStr \in WellFormedIds, fail \in BOOLEAN :
                            ~UpdateBegin(p, idStr, body, fail)
      ]_vars

\* C3 witness: an Update of a stored record refused by validation
C3_Witness ==
    /\ out.by = "Update" /\ out.type = "VALIDATION_ERROR"
    /\ Stored # {}

\* the well-formed path ids of record u, and the valid bodies
IdsOf(u) == {idStr \in WellFormedIds : uuidParse(idStr).id = u}
GoodBodies == {body \in Bodies : body.kind = "json" /\ FieldsValid(body)}

\* C4: a Create that succeeds answers with the record as it is stored; until
\* an Update or a Delete of that id writes, the stored record stays as it is,
\* and a GetByID of a stored id (in any form uuid.Parse reads) answers 200
\* with that record as stored, writing nothing: so the GetByID that follows
\* a Create, with no request on the id in between, shows the title,
\* description, completed, createdAt and updatedAt of the Create response.
C4_RoundTrip ==
    [][/\ \A p \in Procs : CreateRepo(p, FALSE) =>
            /\ store'[task[p].ID] = task[p]
            /\ out'.body = MarshalGetTaskResponse(ToProto(store'[task[p].ID]))
       /\ \A u \in Stored : store'[u] # store[u] =>
            \/ \E p \in Procs : task[p].ID = u /\ UpdateRepo(p, FALSE)
            \/ \E p \in Procs, idStr \in IdsOf(u) : Delete(p, idStr, FALSE)
       /\ \A p \in FirstFree(Procs) : Enters(p, "GetByID", "idle") =>
            \A u \in Stored : \A idStr \in IdsOf(u) : GetByID(p, idStr, FALSE) =>
               /\ out'.status = StatusOK /\ out'.type = ""
               /\ out'.body = MarshalGetTaskResponse(ToProto(store[u]))
               /\ out'.body.task.val.id = uuidString(u)
               /\ store' = store
      ]_vars

\* C4 witness: a GetByID answered 200 with a record that has a description and
\* was created after the clock moved, and was never updated
C4_Witness ==
    /\ out.by = "GetByID" /\ out.status = StatusOK
    /\ "description" \in out.body.task.keys
    /\ out.body.task.val.createdAt = Timestamp(1)
    /\ out.body.task.val.updatedAt = Timestamp(1)

\* C5: an Update with a valid body that finds its record builds the record it
\* writes with the completed it found when the request has none, with true
\* when the request says true, and with an updatedAt no earlier than the one
\* it found; when its write succeeds on the record it is answered 200 and the
\* stored completed and updatedAt are the ones it built.
C5_UpdateCompleted ==
    [][\A p \in Procs :
        /\ (pc[p] = "idle" /\ pc'[p] = "update_repo") =>
             \A u \in Stored : \A idStr \in IdsOf(u), body \in GoodBodies :
               UpdateBegin(p, idStr, body, FALSE) =>
                  /\ body.completed = "absent" => task'[p].Completed = store[u].Completed
                  /\ body.completed = "true" => task'[p].Completed = TRUE
                  /\ task'[p].UpdatedAt >= store[u].UpdatedAt
                  /\ task'[p].ID = u
        /\ (UpdateRepo(p, FALSE) /\ task[p].ID \in Stored) =>
             /\ out'.status = StatusOK /\ out'.type = ""
             /\ store'[task[p].ID].Completed = task[p].Completed
             /\ store'[task[p].ID].UpdatedAt = task[p].UpdatedAt
      ]_vars

\* C5 witness: an Update answered 200 whose record is stored completed, with
\* an updatedAt later than its createdAt
C5_Witness ==
    /\ out.by = "Update" /\ out.status = StatusOK
    /\ \E u \in Stored :
         /\ out.body.task.val.id = uuidString(u)
         /\ store[u].Completed
         /\ store[u].UpdatedAt > store[u].CreatedAt

\* C6: a Delete of a stored id that the repository carries out is answered
\* 204 and the record is gone; a GetByID of an id that is not stored is
\* answered 404; and an id that is not stored gets stored only by the
\* repository create of a Create answered 201.
C6_DeleteThenNotFound ==
    [][/\ \A p \in FirstFree(Procs) : Enters(p, "Delete", "idle") =>
            \A u \in Stored : \A idStr \in IdsOf(u) : Delete(p, idStr, FALSE) =>
               /\ out'.status = StatusNoContent /\ out'.type = "" /\ out'.body = NoBody
               /\ u \notin Stored'
       /\ \A p \in FirstFree(Procs) : Enters(p, "GetByID", "idle") =>
            \A u \in UUIDs \ Stored : \A idStr \in IdsOf(u) : GetByID(p, idStr, FALSE) =>
               /\ IsError(out', StatusNotFound, "NOT_FOUND")
               /\ u \notin Stored'
       /\ \A u \in UUIDs \ Stored : u \in Stored' =>
            /\ out'.by = "Create" /\ out'.status = StatusCreated
            /\ \E p \in Procs : task[p].ID = u /\ CreateRepo(p, FALSE)
      ]_vars

\* C6 witness: the third request is a GetByID answered 404 when the one
\* identifier handed out is stored no more and no request is under way
C6_Witness ==
    /\ out.by = "GetByID" /\ IsError(out, StatusNotFound, "NOT_FOUND")
    /\ uuidGen = 1 /\ Stored = {} /\ served = 3
    /\ \A p \in Procs : pc[p] = "idle"

\* C7: a GetByID, an Update or a Delete whose path id is no UUID is answered
\* 400 BAD_REQUEST whatever is stored, whatever the body is and whether the
\* repository would answer or fail, and changes nothing stored.
C7_MalformedId ==
    [][\A p \in FirstFree(Procs) : served' = served + 1 =>
        \A fail \in BOOLEAN :
           (\/ GetByID(p, Malformed, fail)
            \/ Delete(p, Malformed, fail)
            \/ \E body \in Bodies : UpdateBegin(p, Malformed, body, fail)) =>
              /\ IsError(out', StatusBadRequest, "BAD_REQUEST")
              /\ pc'[p] = "idle"
              /\ store' = store
      ]_vars

\* C7 witness: an Update of a path id that is no UUID answered 400 BAD_REQUEST for the
\* id, with a record stored
C7_Witness ==
    /\ out.by = "Update" /\ IsError(out, StatusBadRequest, "BAD_REQUEST")
    /\ out.message = "Invalid task ID format"
    /\ Stored # {}

\* C8: a GetAll the repository answers is answered 200 with an envelope that
\* has the key tasks, with one entry per stored record: none when nothing is
\* stored.
C8_ListEnvelope ==
    [][\A p \in FirstFree(Procs) : Enters(p, "GetAll", "idle") =>
        \A order \in Orders(Stored) : GetAll(p, order, FALSE) =>
           /\ out'.status = StatusOK
           /\ "tasks" \in out'.body.keys
           /\ Len(out'.body.tasks) = Cardinality(Stored)
           /\ \A u \in Stored : \E i \in 1..Len(out'.body.tasks) :
                out'.body.tasks[i].val = ToProto(store[u])
      ]_vars

\* C9: when MaxReq valid Creates have run, overlapping in any way, and all
\* have been answered, exactly MaxReq records are stored, each under the
\* identifier it carries, no two with the same one.
C9_ConcurrentCreates ==
    (served = MaxReq /\ \A p \in AllProcs : pc[p] = "idle") =>
        /\ Cardinality(Stored) = MaxReq
        /\ \A u \in Stored : store[u].ID = u
        /\ \A u, v \in Stored : u # v => store[u].ID # store[v].ID

\* C9 witness: the last of MaxReq Creates has just been answered 201 and all
\* their records are stored
C9_Witness ==
    /\ served = MaxReq /\ \A p \in AllProcs : pc[p] = "idle"
    /\ out.by = "Create" /\ out.status = StatusCreated
    /\ Stored = UUIDs

\* C10: a GetByID, or an Update with a valid body, of a well-formed id that
\* is not stored is answered 404 NOT_FOUND when the repository answers and
\* 500 INTERNAL_ERROR when it fails; the Update ends there, before its write,
\* and nothing stored changes.
C10_AbsentIsNotFound ==
    [][\A p \in FirstFree(Procs) :
        /\ Enters(p, "GetByID", "idle") =>
             \A u \in UUIDs \ Stored : \A idStr \in IdsOf(u) :
                /\ GetByID(p, idStr, FALSE) =>
                     IsError(out', StatusNotFound, "NOT_FOUND") /\ store' = store
                /\ GetByID(p, idStr, TRUE) =>
                     IsError(out', StatusInternalServerError, "INTERNAL_ERROR")
        /\ Enters(p, "Update", "update_repo") =>
             \A u \in UUIDs \ Stored : \A idStr \in IdsOf(u), body \in GoodBodies :
                /\ UpdateBegin(p, idStr, body, FALSE) =>
                     /\ IsError(out', StatusNotFound, "NOT_FOUND")
                     /\ pc'[p] = "idle" /\ store' = store
                /\ UpdateBegin(p, idStr, body, TRUE) =>
                     /\ IsError(out', StatusInternalServerError, "INTERNAL_ERROR")
                     /\ pc'[p] = "idle" /\ store' = store
      ]_vars

\* C10 witness: an Update answered 404 while another record is stored
C10_Witness ==
    /\ out.by = "Update" /\ IsError(out, StatusNotFound, "NOT_FOUND")
    /\ Stored # {}

\* C11: a Delete of a well-formed id that the repository carries out is
\* answered 204 with no body; when no record has the id every stored record
\* stays as it is, and when one has it that record alone is removed.
C11_DeleteFrame ==
    [][\A p \in FirstFree(Procs) : Enters(p, "Delete", "idle") =>
        \A u \in UUIDs : \A idStr \in IdsOf(u) : Delete(p, idStr, FALSE) =>
           /\ out'.status = StatusNoContent /\ out'.type = "" /\ out'.body = NoBody
           /\ u \notin Stored => store' = store
           /\ u \in Stored => store' = [store EXCEPT ![u] = NoTask]
      ]_vars

\* C11 witness: a Delete answered 204 with the one record ever created still
\* stored: its id matched nothing
C11_Witness ==
    /\ out.by = "Delete" /\ out.status = StatusNoContent
    /\ uuidGen = 1 /\ Stored = {1}
    /\ \A p \in Procs : pc[p] = "idle"

\* C13: every stored record has createdAt <= updatedAt.
C13_CreatedBeforeUpdated ==
    \A u \in Stored : store[u].CreatedAt <= store[u].UpdatedAt

\* C13 witness: a record created after the clock moved, stored with an
\* updatedAt equal to its createdAt, next to one updated later than created
C13_Witness ==
    \E u, v \in Stored :
       /\ store[u].CreatedAt > 0 /\ store[u].UpdatedAt = store[u].CreatedAt
       /\ store[v].UpdatedAt > store[v].CreatedAt

\* C12: every stored record is stored under the id it carries, so no two
\* share one; a repository create of an id already stored fails, the Create
\* is answered 500 and the store stays as it is; and no step changes the id
\* of a record that stays stored.
C12_UniqueIds ==
    [][/\ \A u \in Stored : store[u].ID = u
       /\ \A u, v \in Stored : u # v => store[u].ID # store[v].ID
       /\ \A p \in Procs : (task[p].ID \in Stored /\ CreateRepo(p, FALSE)) =>
            /\ IsError(out', StatusInternalServerError, "INTERNAL_ERROR")
            /\ store' = store
       /\ \A u \in Stored : store'[u] # NoTask => store'[u].ID = store[u].ID
      ]_vars

\* C12 witness: a Create answered 500 by a repository that answers, with a
\* record stored: its identifier was in use
C12_Witness ==
    /\ out.by = "Create" /\ IsError(out, StatusInternalServerError, "INTERNAL_ERROR")
    /\ Stored # {}

\* the requests taken and not yet answered, and the requests answered
Open == {p \in Procs : pc[p] # "idle"}
Answered == served - Cardinality(Open)
\* the status and kind a response may pair
ErrorKinds == {<<StatusBadRequest, "VALIDATION_ERROR">>, <<StatusBadRequest, "BAD_REQUEST">>,
               <<StatusNotFound, "NOT_FOUND">>, <<StatusInternalServerError, "INTERNAL_ERROR">>}
SuccessStatuses == {StatusOK, StatusCreated, StatusNoContent}
\* what the handlers say of a repository failure
FailureMessages == {"Failed to retrieve tasks", "Failed to create task", "Failed to retrieve task",
                    "Failed to update task", "Failed to delete task"}
\* the answer to a repository failure
IsRepoFailure(resp) ==
    /\ IsError(resp, StatusInternalServerError, "INTERNAL_ERROR")
    /\ resp.message \in FailureMessages /\ resp.details = <<>>

\* C14: a step writes a response exactly when it ends a request, so each
\* request is answered once; a response is a success (200, 201, 204 and no
\* error) or one of the four error kinds with its status and no success body;
\* a repository call that fails, in any of the five handlers, is answered 500
\* INTERNAL_ERROR with the handler's fixed message, ends the request and
\* changes nothing (a step that is not such an answer is the step of no
\* failed repository call); hence no success status is written by a step
\* whose repository call failed.
C14_ErrorKinds ==
    [][/\ Answered' = Answered + (IF out' # NoResp THEN 1 ELSE 0)
       /\ out' # NoResp =>
            \/ out'.status \in SuccessStatuses /\ out'.type = "" /\ out'.message = ""
            \/ <<out'.status, out'.type>> \in ErrorKinds /\ out'.body = NoBody
       /\ \A p \in Procs : (CreateRepo(p, TRUE) \/ UpdateRepo(p, TRUE)) =>
            IsRepoFailure(out') /\ store' = store
       /\ (served' = served + 1 /\ ~(IsRepoFailure(out') /\ store' = store /\ Open' = Open)) =>
            \A p \in FirstFree(Procs) :
               /\ Enters(p, "GetAll", "idle") => \A order \in Orders(Stored) :
                     ~GetAll(p, order, TRUE)
               /\ Enters(p, "GetByID", "idle") => \A idStr \in WellFormedIds :
                     ~GetByID(p, idStr, TRUE)
               /\ Enters(p, "Delete", "idle") => \A idStr \in WellFormedIds :
                     ~Delete(p, idStr, TRUE)
               /\ Enters(p, "Update", "update_repo") =>
                     \A idStr \in WellFormedIds, body \in GoodBodies :
                        ~UpdateBegin(p, idStr, body, TRUE)
      ]_vars

\* C14 witness: a Delete answered 500 for a repository failure, a record stored
C14_Witness ==
    /\ out.by = "Delete" /\ IsRepoFailure(out)
    /\ out.message = "Failed to delete task"
    /\ Stored # {}

\* C16: a record gets into the store only by the repository create of a
\* Create, a stored record changes only by the repository update of an
\* Update of its id, and leaves only by a Delete of its id; the repository
\* update of an id that is not stored (deleted since the Update found it)
\* stores nothing; GetByID and GetAll leave the store as it is.
C16_Lifecycle ==
    [][/\ \A u \in UUIDs :
            /\ (u \notin Stored /\ store'[u] # NoTask) =>
                 /\ out'.by = "Create" /\ out'.status = StatusCreated
                 /\ \E p \in Procs : task[p].ID = u /\ CreateRepo(p, FALSE)
            /\ (u \in Stored /\ store'[u] # NoTask /\ store'[u] # store[u]) =>
                 /\ out'.by = "Update"
                 /\ \E p \in Procs : task[p].ID = u /\ UpdateRepo(p, FALSE)
            /\ (u \in Stored /\ store'[u] = NoTask) =>
                 /\ out'.by = "Delete"
                 /\ \E p \in Procs : \E idStr \in IdsOf(u) : Delete(p, idStr, FALSE)
       /\ \A p \in Procs : (pc[p] = "update_repo" /\ task[p].ID \notin Stored) =>
            \A fail \in BOOLEAN : UpdateRepo(p, fail) => store' = store
       /\ out'.by \in {"GetByID", "GetAll"} => store' = store
      ]_vars

\* C16 witness: an Update answered 200 for a record that is not stored: it was
\* deleted after the Update found it, and the repository update stored nothing
C16_Witness ==
    /\ out.by = "Update" /\ out.status = StatusOK
    /\ \E u \in UUIDs \ Stored : out.body.task.val.id = uuidString(u)

\* the first stage of a request that fails, from its path id and its body
\* alone: "id", "read", "decode", "validate", or "execute" when none does
FirstFailing(h, idStr, body) ==
    IF h # "Create" /\ idStr \notin WellFormedIds THEN "id"
    ELSE IF h \in {"GetByID", "Delete"} THEN "execute"
    ELSE IF body.kind = "unreadable" THEN "read"
    ELSE IF body.kind # "json" \/ (h = "Create" /\ body.completed # "absent") THEN "decode"
    ELSE IF ~FieldsValid(body) THEN "validate"
    ELSE "execute"

\* the answer of handler h to a request whose first failing stage is stage;
\* no stage after it has run: the request is over and nothing stored changed
StoppedAt(h, stage, p) ==
    /\ out'.by = h /\ out'.status = StatusBadRequest /\ out'.body = NoBody
    /\ pc'[p] = "idle" /\ store' = store /\ uuidGen' = uuidGen
    /\ stage = "id" => out'.type = "BAD_REQUEST" /\ out'.message = "Invalid task ID format"
    /\ stage = "read" => out'.type = "BAD_REQUEST" /\ out'.message = "Failed to read request body"
    /\ stage = "decode" => out'.type = "BAD_REQUEST" /\ out'.message = "Invalid JSON format"
    /\ stage = "validate" => out'.type = "VALIDATION_ERROR"

\* C17: a request is answered for its first failing stage, in the order path
\* id, body read, body decoded, validation, whatever the later stages would
\* do (the record stored or not, the repository answering or failing), and
\* no later stage runs; when none of these fails the repository is asked: a
\* failing find is answered 500, a find that finds nothing 404, and only
\* then does an Update go on to its write.
C17_StageOrder ==
    [][\A p \in FirstFree({1}) : served' = served + 1 =>
        /\ \A body \in Bodies :
             (FirstFailing("Create", Malformed, body) # "execute" /\ CreateBegin(p, body)) =>
                StoppedAt("Create", FirstFailing("Create", Malformed, body), p)
        /\ \A fail \in BOOLEAN :
             /\ GetByID(p, Malformed, fail) => StoppedAt("GetByID", "id", p)
             /\ Delete(p, Malformed, fail) => StoppedAt("Delete", "id", p)
             /\ \A idStr \in PathIds, body \in Bodies : UpdateBegin(p, idStr, body, fail) =>
                  LET stage == FirstFailing("Update", idStr, body)
                  IN  IF stage # "execute" THEN StoppedAt("Update", stage, p)
                      ELSE IF fail
                      THEN IsError(out', StatusInternalServerError, "INTERNAL_ERROR")
                      ELSE IF uuidParse(idStr).id \notin Stored
                      THEN IsError(out', StatusNotFound, "NOT_FOUND")
                      ELSE out' = NoResp /\ pc'[p] = "update_repo"
      ]_vars

\* C17 witness: an Update answered 400 VALIDATION_ERROR when nothing is
\* stored: its body was invalid and its id, well-formed, that of no record
C17_Witness ==
    /\ out.by = "Update" /\ IsError(out, StatusBadRequest, "VALIDATION_ERROR")
    /\ Stored = {}

\* C18: an Update with a valid body that finds its record X builds the
\* record it writes from the request's title and description (the empty
\* description of a request that has none included), the clock, and X's id
\* and createdAt; its repository update, when it succeeds on X, stores that
\* title, description and updatedAt, leaves X's id and createdAt and every
\* other record as they were, and is answered 200 with the record built.
C18_UpdateFrame ==
    [][\A p \in Procs :
        /\ (pc[p] = "idle" /\ pc'[p] = "update_repo") =>
             \A u \in Stored : \A idStr \in IdsOf(u), body \in GoodBodies :
               UpdateBegin(p, idStr, body, FALSE) =>
                  /\ task'[p].Title = body.title
                  /\ task'[p].Description = body.description
                  /\ task'[p].UpdatedAt = clock
                  /\ task'[p].ID = u /\ task'[p].CreatedAt = store[u].CreatedAt
                  /\ store' = store
        /\ (UpdateRepo(p, FALSE) /\ task[p].ID \in Stored) =>
             LET X == task[p].ID
             IN  /\ store'[X].Title = task[p].Title
                 /\ store'[X].Description = task[p].Description
                 /\ store'[X].UpdatedAt = task[p].UpdatedAt
                 /\ store'[X].ID = X /\ store'[X].CreatedAt = store[X].CreatedAt
                 /\ \A v \in UUIDs \ {X} : store'[v] = store[v]
                 /\ out'.status = StatusOK
                 /\ out'.body = MarshalGetTaskResponse(ToProto(task[p]))
      ]_vars

\* C18 witness: an Update answered 200 whose record is stored with an empty
\* description and an updatedAt later than its createdAt, next to another
C18_Witness ==
    /\ out.by = "Update" /\ out.status = StatusOK
    /\ Cardinality(Stored) = 2
    /\ \E u \in Stored :
         /\ out.body.task.val = ToProto(store[u])
         /\ store[u].Description = EmptyStr
         /\ store[u].UpdatedAt > store[u].CreatedAt


\* C20: an Update that answers 200 with a task has that task stored once its
\* repository write is done: a record with the task's id is in the store and
\* holds the title, description, completed and updatedAt of the response,
\* also when a Delete of the id ran between the Update's find and its write.
C20_UpdateOKIsStored ==
    [][\A p \in Procs :
          (UpdateRepo(p, FALSE) /\ out'.status = StatusOK /\ "task" \in out'.body.keys) =>
             LET X == task[p].ID
                 t == out'.body.task.val
             IN  /\ store'[X] # NoTask
                 /\ ToProto(store'[X]).title = t.title
                 /\ ToProto(store'[X]).description = t.description
                 /\ ToProto(store'[X]).completed = t.completed
                 /\ ToProto(store'[X]).updatedAt = t.updatedAt
      ]_vars


\* C19: concurrent Updates of one id are atomic with respect to each other,
\* so that what is stored is what the Updates give one after another.  Of a
\* repository write of an Update on a stored record this says: the stored
\* updatedAt does not decrease, and an Update whose request has no completed
\* leaves the stored completed as it is, whoever wrote it since the Update's
\* read.
C19_UpdatesAtomic ==
    [][\A p \in Procs :
          (UpdateRepo(p, FALSE) /\ task[p].ID \in Stored) =>
             LET X == task[p].ID
             IN  /\ store'[X].UpdatedAt >= store[X].UpdatedAt
                 /\ request[p].Completed = "absent" =>
                       store'[X].Completed = store[X].Completed
      ]_vars


\* C15: every repository call runs under a deadline that is the earlier of
\* the caller's deadline and 5 units from the start of the call.  A response
\* is written, and the store changed, only by a step whose call is pending
\* under such a deadline; once the deadline has come the store's answer no
\* longer counts; a call that expires or is cancelled fails, and the handler
\* answers 500 with its fixed message and leaves the store as it was.  So
\* every pending call ends and its goroutine is free again, whether or not
\* the store ever answers.
C15_CallDeadline ==
    /\ [][\A p \in AllProcs :
            /\ (Pending(p)' /\ (~Pending(p) \/ call'[p].op # call[p].op)) =>
                  LET c == call'[p]
                  IN  /\ c.ctx.set /\ c.ctx.left <= RepoTimeout
                      /\ c.parent.set => c.ctx.left <= c.parent.left
                      /\ c.ctx.left = RepoTimeout \/ (c.parent.set /\ c.ctx.left = c.parent.left)
            /\ (Pending(p) /\ Pending(p)' /\ call'[p].op = call[p].op) =>
                  /\ call'[p].ctx.left <= call[p].ctx.left
                  /\ store' = store /\ out' \in {out, NoResp}
            /\ ((out' # out /\ out' # NoResp) \/ store' # store) =>
                  \E q \in AllProcs : Pending(q) /\ call'[q] # call[q] /\ call[q].ctx.set
            /\ (Pending(p) /\ call[p].ctx.left = 0 /\ call'[p] # call[p]) =>
                  call'[p].state \in {"expired", "cancelled"}
            /\ (Pending(p) /\ call'[p].state \in {"expired", "cancelled"}) =>
                  /\ IsRepoFailure(out') /\ out'.status = StatusInternalServerError
                  /\ store' = store
                  /\ pc'[p] = "idle"
       ]_vars
    /\ \A p \in AllProcs : Pending(p) ~> (~Pending(p) /\ pc[p] = "idle")

\* a call ran into its deadline and its handler answered 500
C15_Witness ==
    /\ \E p \in AllProcs : call[p].state = "expired"
    /\ IsRepoFailure(out) /\ out.status = StatusInternalServerError
    /\ out.by = "Update"
    /\ Stored # {}

============================================================================
